---- MODULE Spec2Model ----
(***************************************************************************)
(* A model of bitmappery's rendering core:                                 *)
(*   - ZoomableCanvas (src/unnamed/part_000): the zoom aware render loop,  *)
(*     setDocumentScale / setZoomFactor and handleInteraction;             *)
(*   - render-service.js: renderEffectsForLayer, createDocumentSnapshot    *)
(*     and copySelection, and on their own renderFilters (one pixel) and   *)
(*     renderTransformedSource / renderMask (the context's saved states);  *)
(*   - EffectFactory (src/unnamed/part_001): create, serialize and         *)
(*     deserialize.                                                        *)
(* JavaScript numbers are modelled as exact rationals <<n, d>> (d > 0,     *)
(* lowest terms); d = 0 encodes the non finite values: <<1,0>> Infinity,   *)
(* <<-1,0>> -Infinity and <<0,0>> NaN.                                     *)
(***************************************************************************)
EXTENDS Integers, Sequences, FiniteSets, TLC

\* ------------------------------------------------------------ bounds
MaxOutstanding == 3   \* cap on animation-frame requests outstanding at once
MaxChildren    == 2   \* cap on sprites added to the canvas display list
MaxCtxScale    == 4   \* setZoomFactor is called on a context scaled by a
                      \* factor between 1 / MaxCtxScale and MaxCtxScale only

\* ------------------------------------------------- program constants
WHEEL_SPEED == 20
MAX_8BIT    == 255

\* ------------------------------------------------------- JS numbers
Abs(x) == IF x < 0 THEN -x ELSE x
Sign(x) == IF x < 0 THEN -1 ELSE IF x > 0 THEN 1 ELSE 0

RECURSIVE Gcd(_, _)
Gcd(a, b) == IF b = 0 THEN a ELSE Gcd(b, a % b)

Num(n, d) ==
    IF d = 0 THEN <<Sign(n), 0>>
    ELSE LET g == Gcd(Abs(n), Abs(d))
             s == IF d < 0 THEN -1 ELSE 1
         IN  <<(s * n) \div g, (s * d) \div g>>

Nr(i)  == <<i, 1>>
Half    == <<1, 2>>
NaN     == <<0, 0>>
IsNaN(a)    == a = NaN
IsFinite(a) == a[2] # 0

\* a + b
Add(a, b) ==
    IF IsNaN(a) \/ IsNaN(b) THEN NaN
    ELSE IF ~IsFinite(a) /\ ~IsFinite(b) THEN (IF a = b THEN a ELSE NaN)
    ELSE IF ~IsFinite(a) THEN a
    ELSE IF ~IsFinite(b) THEN b
    ELSE Num(a[1] * b[2] + b[1] * a[2], a[2] * b[2])

Neg(a) == <<-a[1], a[2]>>
\* a - b
Sub(a, b) == Add(a, Neg(b))

\* a * b
Mul(a, b) ==
    IF IsNaN(a) \/ IsNaN(b) THEN NaN
    ELSE IF IsFinite(a) /\ IsFinite(b) THEN Num(a[1] * b[1], a[2] * b[2])
    ELSE <<Sign(a[1]) * Sign(b[1]), 0>>

\* a / b: x/0 is +-Infinity, 0/0 is NaN
Div(a, b) ==
    IF IsNaN(a) \/ IsNaN(b) THEN NaN
    ELSE IF ~IsFinite(b) THEN (IF IsFinite(a) THEN Nr(0) ELSE NaN)
    ELSE IF ~IsFinite(a) THEN <<a[1] * (IF b[1] < 0 THEN -1 ELSE 1), 0>>
    ELSE Num(a[1] * b[2], a[2] * b[1])

\* a < b for values that are not NaN
Lt(a, b) ==
    IF IsFinite(a) /\ IsFinite(b) THEN a[1] * b[2] < b[1] * a[2]
    ELSE IF ~IsFinite(a) /\ ~IsFinite(b) THEN a[1] < b[1]
    ELSE IF ~IsFinite(a) THEN a[1] < 0
    ELSE b[1] > 0

\* Math.min / Math.max: NaN if either argument is NaN
MathMin(a, b) == IF IsNaN(a) \/ IsNaN(b) THEN NaN ELSE IF Lt(b, a) THEN b ELSE a
MathMax(a, b) == IF IsNaN(a) \/ IsNaN(b) THEN NaN ELSE IF Lt(a, b) THEN b ELSE a

\* JS truthiness of a number: 0, -0 and NaN are falsy
Truthy(a) == ~IsNaN(a) /\ a[1] # 0

\* ------------------------------------------------------ input domains
\* canvas sizes handed to setDocumentScale (targetWidth, targetHeight)
TargetSizes == {<<60, 100>>, <<100, 100>>, <<140, 140>>, <<180, 140>>}
\* the scale and zoom arguments of setDocumentScale
Scales == {<<1, 2>>, <<1, 1>>}
Zooms  == {<<1, 1>>, <<2, 1>>}
\* the argument of setZoomFactor when called on its own
ZoomFactors == {<<1, 2>>, <<1, 1>>, <<2, 1>>}
\* width of the bound document (0: no activeDocument argument)
DocWidths == {0, 200}
\* the viewport the canvas is constructed with
ViewportWidth  == 100
ViewportHeight == 100
\* event-local mouse coordinates, touch page coordinates, wheel deltas and
\* the canvas' position on screen (getCoordinate)
MouseOffsets  == {<<0, 0>>, <<30, 10>>}
TouchPages    == {<<50, 60>>, <<80, 60>>}
CanvasOffsets == {<<50, 60>>}
WheelDeltas   == {<<0, 0>>, <<3, 0>>, <<-120, 0>>, <<0, 7>>, <<0, -7>>}

VARIABLES
    zc,       \* the ZoomableCanvas instance (fields of zCanvas.canvas included)
    last,     \* what the operation executed last did (observation only)
    doc,      \* render-service: the layers of the active document, bottom first
    sprites,  \* render-service: the sprite of each layer
    runs,     \* render-service: the renderEffectsForLayer invocations
    surf,     \* render-service: the contents of the canvases, by identity
    src,      \* render-service: what each layer.source holds
    snap,     \* render-service: the createDocumentSnapshot call
    copy,     \* render-service: the copySelection call
    fx,       \* EffectFactory: an effects list on its way through storage
    px,       \* render-service: the pixel buffer renderFilters works on
    tr        \* render-service: the context renderTransformedSource draws on

canvasVars == <<zc, last>>
renderVars == <<doc, sprites, runs, surf, src, snap, copy>>
unitVars == <<fx, px, tr>>
vars == <<zc, last, doc, sprites, runs, surf, src, snap, copy, fx, px, tr>>

\* ------------------------------------------- zCanvas.canvas (library)
\* canvas.invalidate(): request a frame unless animating or one is pending
invalidate(c) ==
    IF ~c.animate /\ ~c.renderPending
    THEN [c EXCEPT !.renderPending = TRUE, !.raf = @ + 1]
    ELSE c

\* canvas.panViewport( x, y ): the viewport stays inside the canvas
panViewport(c, x, y) ==
    LET l == MathMax(Nr(0), MathMin(x, Nr(c.width  - c.vp.width)))
        t == MathMax(Nr(0), MathMin(y, Nr(c.height - c.vp.height)))
    IN  invalidate([c EXCEPT !.vp.left = l, !.vp.top = t])

\* canvas.setDimensions( w, h, true, true ): the immediate resize. Resizing
\* the <canvas> element resets the transform of its 2D context.
setDimensions(c, w, h) ==
    invalidate([c EXCEPT !.width = w, !.height = h, !.enqueuedSize = <<>>,
                         !.ctxScale = Nr(1)])

\* ------------------------------------------------------ ZoomableCanvas
setZoomFactor(c, scale) ==
    invalidate([c EXCEPT !.zoomFactor = scale,
                         !.ctxScale   = Mul(@, scale)])

\* faulty variant: the relative scroll offset is dropped, every rescale centres
ScrollRatioCentered(pos, scrollRange) == Half

\* ( left / scrollWidth ) || .5
ScrollRatio(pos, scrollRange) ==
    LET q == Div(pos, Nr(scrollRange))
    IN  IF Truthy(q) THEN q ELSE Half

\* faulty variant: the scroll range is not recomputed after the resize
StaleScrollRange(oldRange, newExtent, viewportExtent) == oldRange

\* the scroll range recomputed after the scaling operation (lines 53-54)
UpdatedScrollRange(oldRange, newExtent, viewportExtent) ==
    newExtent - viewportExtent

\* the observation of one setDocumentScale call
RescaleTrace(c, tw, th, scale, zoom) ==
    LET scrollWidth  == c.width  - c.vp.width
        scrollHeight == c.height - c.vp.height
        ratioX == ScrollRatio(c.vp.left, scrollWidth)
        ratioY == ScrollRatio(c.vp.top,  scrollHeight)
        c1 == setDimensions(c, tw, th)
        c2 == setZoomFactor(c1, Mul(scale, zoom))
        newScrollWidth  == UpdatedScrollRange(scrollWidth,  c2.width,  c.vp.width)
        newScrollHeight == UpdatedScrollRange(scrollHeight, c2.height, c.vp.height)
    IN  [op |-> "rescale",
         left |-> c.vp.left, top |-> c.vp.top,
         scrollWidth |-> scrollWidth, scrollHeight |-> scrollHeight,
         ratioX |-> ratioX, ratioY |-> ratioY,
         panX |-> Mul(Nr(newScrollWidth),  ratioX),
         panY |-> Mul(Nr(newScrollHeight), ratioY)]

setDocumentScale(c, tw, th, scale, zoom, docWidth) ==
    LET t  == RescaleTrace(c, tw, th, scale, zoom)
        c1 == setDimensions(c, tw, th)
        c2 == setZoomFactor(c1, Mul(scale, zoom))
        c3 == panViewport(c2, t.panX, t.panY)
    IN  IF docWidth # 0
        THEN [c3 EXCEPT !.documentScale = Div(Nr(docWidth), Nr(c3.width))]
        ELSE c3

\* render(): hookInvalidates says whether the update hook or a sprite calls
\* invalidate() while the frame is drawn. Timestamps are left out.
render(c, hookInvalidates) ==
    LET c1 == [c EXCEPT !.renderPending = FALSE]
        c2 == IF hookInvalidates THEN invalidate(c1) ELSE c1
    IN  IF c.enqueuedSize # <<>>
        THEN c1   \* updateCanvasSize is not defined in this module: ReferenceError
        ELSE IF ~c2.disposed /\ c2.animate /\ ~c2.renderPending
             THEN [c2 EXCEPT !.renderPending = TRUE, !.raf = @ + 1]
             ELSE c2

\* faulty variant: the zoomFactor correction is left out
MouseCoordinateUnzoomed(offset, vpOffset, hasViewport, zoomFactor) ==
    IF hasViewport THEN Add(Nr(offset), vpOffset) ELSE Nr(offset)

\* offsetX += viewport.left; offsetX /= zoomFactor (one axis)
MouseCoordinate(offset, vpOffset, hasViewport, zoomFactor) ==
    Div(IF hasViewport THEN Add(Nr(offset), vpOffset) ELSE Nr(offset), zoomFactor)

\* ( touches[ 0 ].pageX - ( offset.x - viewport.left )) / zoomFactor (one axis)
TouchCoordinate(page, canvasOffset, vpOffset, hasViewport, zoomFactor) ==
    Div(Sub(Nr(page),
            IF hasViewport THEN Sub(Nr(canvasOffset), vpOffset) ELSE Nr(canvasOffset)),
        zoomFactor)

\* faulty variant: the loop over the children is not broken by a handling child
RECURSIVE MouseDispatchNoBreak(_, _)
MouseDispatchNoBreak(i, handled) ==
    IF i = 0 THEN <<>> ELSE <<i>> \o MouseDispatchNoBreak(i - 1, handled)

\* the children a mouse event is offered to, in order, from child i downwards:
\* the loop breaks at the first child that reports the event as handled
RECURSIVE MouseDispatch(_, _)
MouseDispatch(i, handled) ==
    IF i = 0 THEN <<>>
    ELSE IF handled[i] THEN <<i>>
    ELSE <<i>> \o MouseDispatch(i - 1, handled)

\* faulty variant: the touch loop breaks like the mouse loop
TouchDispatchBreaking(i, handled) == MouseDispatch(i, handled)

\* the children a touch event is offered to: the loop is never broken
RECURSIVE TouchDispatch(_, _)
TouchDispatch(i, handled) ==
    IF i = 0 THEN <<>> ELSE <<i>> \o TouchDispatch(i - 1, handled)

\* deltaX === 0 ? 0 : deltaX > 0 ? WHEEL_SPEED : -WHEEL_SPEED
WheelSpeed(delta) ==
    IF delta = 0 THEN 0 ELSE IF delta > 0 THEN WHEEL_SPEED ELSE -WHEEL_SPEED

\* ------------------------------------------------------ canvas actions
\* the canvas as its constructor leaves it: setZoomFactor( 1 ) has scaled the
\* context and requested the first frame
NewCanvas(hasViewport) ==
    [width |-> 100, height |-> 100,
     hasViewport |-> hasViewport,
     vp |-> [left |-> Nr(0), top |-> Nr(0),
             width |-> ViewportWidth, height |-> ViewportHeight],
     zoomFactor |-> Nr(1), ctxScale |-> Nr(1), documentScale |-> Nr(1),
     renderPending |-> TRUE, raf |-> 1,
     animate |-> FALSE, disposed |-> FALSE,
     enqueuedSize |-> <<>>, numChildren |-> 0]

\* setDocumentScale( targetWidth, targetHeight, scale, zoom, activeDocument )
SetDocumentScale ==
    /\ ~zc.disposed
    /\ zc.hasViewport     \* destructuring a missing viewport throws (line 38)
    /\ \E size \in TargetSizes, scale \in Scales, zoom \in Zooms, dw \in DocWidths :
        /\ zc'   = setDocumentScale(zc, size[1], size[2], scale, zoom, dw)
        /\ last' = RescaleTrace(zc, size[1], size[2], scale, zoom)
    /\ UNCHANGED <<renderVars, unitVars>>

\* the browser runs an outstanding animation-frame request: _renderHandler
FrameCallback ==
    /\ zc.raf > 0
    /\ \E hook \in BOOLEAN :
        zc' = render([zc EXCEPT !.raf = @ - 1], hook)
    /\ last' = [op |-> "frame"]
    /\ UNCHANGED <<renderVars, unitVars>>

\* render() invoked directly, not as the animation-frame callback
RenderDirect ==
    /\ zc.raf < MaxOutstanding
    /\ \E hook \in BOOLEAN :
        zc' = render(zc, hook)
    /\ last' = [op |-> "render"]
    /\ UNCHANGED <<renderVars, unitVars>>

\* handleInteraction( aEvent ) for mousedown, mousemove and mouseup; handled[i]
\* is what child i returns from its handleInteraction
HandleMouse ==
    /\ ~zc.disposed
    /\ \E off \in MouseOffsets, handled \in [1..zc.numChildren -> BOOLEAN] :
        last' = [op |-> "mouse", offset |-> off, handled |-> handled,
                 x |-> MouseCoordinate(off[1], zc.vp.left, zc.hasViewport, zc.zoomFactor),
                 y |-> MouseCoordinate(off[2], zc.vp.top,  zc.hasViewport, zc.zoomFactor),
                 offered |-> MouseDispatch(zc.numChildren, handled)]
    /\ zc' = invalidate(zc)
    /\ UNCHANGED <<renderVars, unitVars>>

\* handleInteraction( aEvent ) for the touch events (the default branch);
\* hasTouch: touches or changedTouches holds a touch
HandleTouch ==
    /\ ~zc.disposed
    /\ \E page \in TouchPages, co \in CanvasOffsets, hasTouch \in BOOLEAN,
          handled \in [1..zc.numChildren -> BOOLEAN] :
        last' = [op |-> "touch", page |-> page, canvasOffset |-> co,
                 hasTouch |-> hasTouch, handled |-> handled,
                 x |-> IF hasTouch
                       THEN TouchCoordinate(page[1], co[1], zc.vp.left,
                                            zc.hasViewport, zc.zoomFactor)
                       ELSE Nr(0),
                 y |-> IF hasTouch
                       THEN TouchCoordinate(page[2], co[2], zc.vp.top,
                                            zc.hasViewport, zc.zoomFactor)
                       ELSE Nr(0),
                 offered |-> TouchDispatch(zc.numChildren, handled)]
    /\ zc' = invalidate(zc)
    /\ UNCHANGED <<renderVars, unitVars>>

\* handleInteraction( aEvent ) for the wheel event
HandleWheel ==
    /\ ~zc.disposed
    /\ \E delta \in WheelDeltas :
        /\ last' = [op |-> "wheel", delta |-> delta,
                    left |-> zc.vp.left, top |-> zc.vp.top,
                    numChildren |-> zc.numChildren,
                    panned |-> zc.numChildren > 0 /\ zc.hasViewport,
                    panX |-> Add(zc.vp.left, Nr(WheelSpeed(delta[1]))),
                    panY |-> Add(zc.vp.top,  Nr(WheelSpeed(delta[2])))]
        /\ zc' = IF zc.numChildren > 0
                 THEN IF zc.hasViewport
                      THEN invalidate(panViewport(zc,
                               Add(zc.vp.left, Nr(WheelSpeed(delta[1]))),
                               Add(zc.vp.top,  Nr(WheelSpeed(delta[2])))))
                      ELSE zc   \* viewport.left of a missing viewport throws
                 ELSE invalidate(zc)
    /\ UNCHANGED <<renderVars, unitVars>>

\* canvas.addChild( sprite ) (library)
AddChild ==
    /\ ~zc.disposed
    /\ zc.numChildren < MaxChildren
    /\ zc' = invalidate([zc EXCEPT !.numChildren = @ + 1])
    /\ last' = [op |-> "addChild"]
    /\ UNCHANGED <<renderVars, unitVars>>

\* canvas.setAnimatable( value ) (library); the loop is started by a render()
SetAnimatable ==
    /\ ~zc.disposed
    /\ zc' = [zc EXCEPT !.animate = ~@]
    /\ last' = [op |-> "setAnimatable"]
    /\ UNCHANGED <<renderVars, unitVars>>

\* canvas.dispose() (library): cancels the request made last
Dispose ==
    /\ ~zc.disposed
    /\ zc' = [zc EXCEPT !.disposed = TRUE, !.animate = FALSE,
                        !.raf = IF @ > 0 THEN @ - 1 ELSE 0]
    /\ last' = [op |-> "dispose"]
    /\ UNCHANGED <<renderVars, unitVars>>

\* setZoomFactor( scale ) called on its own
SetZoomFactor ==
    /\ ~zc.disposed
    /\ Lt(zc.ctxScale, Nr(MaxCtxScale))
    /\ Lt(Div(Nr(1), Nr(MaxCtxScale)), zc.ctxScale)
    /\ \E scale \in ZoomFactors :
        zc' = setZoomFactor(zc, scale)
    /\ last' = [op |-> "zoom"]
    /\ UNCHANGED <<renderVars, unitVars>>

\* canvas.setDimensions( width, height ) (library): the resize is enqueued
\* for the next render
EnqueueResize ==
    /\ ~zc.disposed
    /\ \E size \in TargetSizes :
        zc' = invalidate([zc EXCEPT !.enqueuedSize = size])
    /\ last' = [op |-> "resize"]
    /\ UNCHANGED <<renderVars, unitVars>>

\* the zoom operations, enqueued resizes and the frames in between
NextZoom ==
    \/ SetZoomFactor
    \/ SetDocumentScale
    \/ EnqueueResize
    \/ FrameCallback

\* the viewport, zoom and input-translation operations, with the frames the
\* browser runs in between
NextCanvas ==
    \/ SetDocumentScale
    \/ FrameCallback
    \/ HandleMouse
    \/ HandleTouch
    \/ HandleWheel
    \/ AddChild

\* the render loop: frames, direct render() calls, and the operations that
\* invalidate, start or stop it
NextLoop ==
    \/ FrameCallback
    \/ RenderDirect
    \/ HandleMouse
    \/ AddChild
    \/ SetAnimatable
    \/ Dispose

\* ------------------------------------------------------- EffectFactory
\* a rotation value, rat + quarter * ( Math.PI / 2 ) with integer rat and quarter
Rot(rat, quarter) == [rat |-> rat, quarter |-> quarter]

Rotations ==
    {Rot(0, 0), Rot(0, 1), Rot(0, 2), Rot(0, 3), Rot(0, 4), Rot(0, 8),
     Rot(0, -4), Rot(0, -1), Rot(90, 0), Rot(360, 0)}

\* an argument that may be left out: <<>> is undefined, <<v>> the value v
Undefined == <<>>
Given(v)  == <<v>>
OrDefault(arg, default) == IF arg = Undefined THEN default ELSE arg[1]

\* create({ rotation = 0, mirrorX = false, mirrorY = false } = {})
create(args) ==
    [rotation |-> OrDefault(args.rotation, Rot(0, 0)),
     mirrorX  |-> OrDefault(args.mirrorX, FALSE),
     mirrorY  |-> OrDefault(args.mirrorY, FALSE)]

serialize(effects) ==
    [r |-> effects.rotation, x |-> effects.mirrorX, y |-> effects.mirrorY]

\* faulty variant: the mirror flags are read back crosswise
deserializeCrossed(effects) ==
    create([rotation |-> Given(effects.r),
            mirrorX  |-> Given(effects.y),
            mirrorY  |-> Given(effects.x)])

deserialize(effects) ==
    create([rotation |-> Given(effects.r),
            mirrorX  |-> Given(effects.x),
            mirrorY  |-> Given(effects.y)])

\* the arguments the editor hands to create
CreateArgs ==
    [rotation : {Undefined} \cup {Given(r) : r \in Rotations},
     mirrorX  : {Undefined, Given(FALSE), Given(TRUE)},
     mirrorY  : {Undefined, Given(FALSE), Given(TRUE)}]

IdleFx == [pc |-> "none", effects |-> create([rotation |-> Undefined,
                                              mirrorX |-> Undefined,
                                              mirrorY |-> Undefined]),
           stored |-> <<>>, restored |-> <<>>]

\* EffectFactory.create( args )
Create ==
    /\ fx.pc = "none"
    /\ \E args \in CreateArgs :
        fx' = [fx EXCEPT !.pc = "created", !.effects = create(args)]
    /\ UNCHANGED <<canvasVars, renderVars, px, tr>>

\* EffectFactory.serialize( effects ): the layer is stored with the project
Serialize ==
    /\ fx.pc = "created"
    /\ fx' = [fx EXCEPT !.pc = "serialized", !.stored = <<serialize(fx.effects)>>]
    /\ UNCHANGED <<canvasVars, renderVars, px, tr>>

\* EffectFactory.deserialize( effects ): the stored project is opened
Deserialize ==
    /\ fx.pc = "serialized"
    /\ fx' = [fx EXCEPT !.pc = "deserialized",
                        !.restored = <<deserialize(fx.stored[1])>>]
    /\ UNCHANGED <<canvasVars, renderVars, px, tr>>

NextEffects ==
    \/ Create
    \/ Serialize
    \/ Deserialize

\* ------------------------------------------- render-service: filters
\* filters.levels || filters.contrast
hasFilters(layer) == Truthy(layer.levels) \/ Truthy(layer.contrast)

\* filters.levels and filters.contrast of the layers explored
FilterValues == {Nr(-1), <<-1, 2>>, Nr(0), <<1, 4>>, <<1, 2>>, Nr(1)}

\* the pixels explored: R, G, B and alpha as getImageData returns them
Pixels == {<<100, 0, 255, 255>>, <<101, 64, 200, 128>>, <<128, 127, 30, 0>>}

\* a number stored into ImageData.data, a Uint8ClampedArray: clamped to
\* 0..255 and rounded to the nearest integer, ties to even; NaN is stored as 0
ToUint8Clamp(v) ==
    IF IsNaN(v) THEN 0
    ELSE IF ~IsFinite(v) THEN (IF v[1] > 0 THEN MAX_8BIT ELSE 0)
    ELSE IF Lt(v, Nr(0)) THEN 0
    ELSE IF Lt(Nr(MAX_8BIT), v) THEN MAX_8BIT
    ELSE LET f == v[1] \div v[2]
             r == 2 * (v[1] - f * v[2])
         IN  IF r < v[2] THEN f
             ELSE IF r > v[2] THEN f + 1
             ELSE IF f % 2 = 0 THEN f ELSE f + 1

\* Math.pow((( filters.contrast * 100 ) + 100 ) / 100, 2 )
ContrastFactor(contrast) ==
    LET b == Div(Add(Mul(contrast, Nr(100)), Nr(100)), Nr(100))
    IN  Mul(b, b)

\* filters.levels * 2
InternalLevels(levels) == Mul(levels, Nr(2))

\* data[ i ] * levels * levels
AdjustLevel(channel, levels) == Mul(Mul(channel, levels), levels)

\* (( data[ i ] / MAX_8BIT - HALF ) * contrast + HALF ) * MAX_8BIT
AdjustContrast(channel, contrast) ==
    Mul(Add(Mul(Sub(Div(channel, Nr(MAX_8BIT)), Half), contrast), Half),
        Nr(MAX_8BIT))

\* what the loop body of renderFilters does to one R, G or B channel: the
\* values the two steps read, assign and leave in the buffer
FilterChannel(value, filters) ==
    LET contrast == ContrastFactor(filters.contrast)
        levels   == InternalLevels(filters.levels)
        levelsApplied   == Truthy(levels)
        levelAssigned   == AdjustLevel(Nr(value), levels)
        afterLevels     == IF levelsApplied THEN ToUint8Clamp(levelAssigned)
                           ELSE value
        contrastApplied == Truthy(contrast)
        contrastAssigned == AdjustContrast(Nr(afterLevels), contrast)
        out == IF contrastApplied THEN ToUint8Clamp(contrastAssigned)
               ELSE afterLevels
    IN  [in |-> value,
         levelsApplied |-> levelsApplied, levelAssigned |-> levelAssigned,
         contrastApplied |-> contrastApplied, contrastRead |-> afterLevels,
         contrastAssigned |-> contrastAssigned, out |-> out]

\* renderFilters( source, layer ) on a buffer of one pixel: alpha is left alone
renderFilters(data, filters) ==
    [i \in 1..4 |-> IF i = 4 THEN data[i] ELSE FilterChannel(data[i], filters).out]

IdlePx == [pc |-> "none", filters |-> [levels |-> Nr(0), contrast |-> Nr(0)],
           before |-> <<0, 0, 0, 0>>, data |-> <<0, 0, 0, 0>>]

\* the working surface holds a drawn pixel of a layer with the given filters
LoadPixels ==
    /\ px.pc = "none"
    /\ \E levels \in FilterValues, contrast \in FilterValues, data \in Pixels :
        px' = [pc |-> "drawn",
               filters |-> [levels |-> levels, contrast |-> contrast],
               before |-> data, data |-> data]
    /\ UNCHANGED <<canvasVars, renderVars, fx, tr>>

\* lines 64-66: if ( hasFilters( layer )) await renderFilters( cvs, layer )
ApplyFilters ==
    /\ px.pc = "drawn"
    /\ px' = IF hasFilters(px.filters)
             THEN [px EXCEPT !.pc = "filtered",
                             !.data = renderFilters(px.data, px.filters)]
             ELSE [px EXCEPT !.pc = "unfiltered"]
    /\ UNCHANGED <<canvasVars, renderVars, fx, tr>>

NextFilters ==
    \/ LoadPixels
    \/ ApplyFilters

\* ------------------------------------ render-service: transformed draw
\* !!layer.mask, or effects.rotation !== 0 || effects.mirrorX || effects.mirrorY
hasEffects(layer) ==
    layer.mask \/ layer.rotation # Rot(0, 0) \/ layer.mirrorX \/ layer.mirrorY

\* ( rotation % 360 ) !== 0: a number with a part in Math.PI is no multiple
\* of 360
RotationRemainderNonZero(rotation) ==
    rotation.quarter # 0 \/ rotation.rat % 360 # 0

\* a 2D context: the current transform (the calls made on it since the
\* identity) and the stack of saved states
NewContext == [transform |-> <<>>, stack |-> <<>>]
save(ctx) == [ctx EXCEPT !.stack = Append(@, ctx.transform)]
restore(ctx) ==
    IF ctx.stack = <<>> THEN ctx
    ELSE [transform |-> ctx.stack[Len(ctx.stack)],
          stack |-> SubSeq(ctx.stack, 1, Len(ctx.stack) - 1)]
Apply(ctx, call) == [ctx EXCEPT !.transform = Append(@, call)]

\* lines 205-209: ctx.scale( xScale, yScale )
ScaleCall(mirrorX, mirrorY) ==
    IF mirrorX THEN (IF mirrorY THEN "scale(-1,-1)" ELSE "scale(-1,1)")
    ELSE (IF mirrorY THEN "scale(1,-1)" ELSE "scale(1,1)")

\* lines 202-203 and 221-222: where the source is drawn
Target(rotate, mirrorX, mirrorY) ==
    IF rotate THEN "centre - layer size / 2"
    ELSE IF mirrorX THEN (IF mirrorY THEN "(-width,-height)" ELSE "(-width,0)")
    ELSE (IF mirrorY THEN "(0,-height)" ELSE "(0,0)")

\* renderMask( layer, ctx, tX, tY ): returns the context and whether the draw
\* of the mask threw
renderMask(ctx, layer, maskFails) ==
    IF ~layer.mask THEN [ctx |-> ctx, threw |-> FALSE]
    ELSE LET c1 == Apply(save(ctx), "translate(target)")
         IN  IF maskFails THEN [ctx |-> c1, threw |-> TRUE]
             ELSE [ctx |-> restore(c1), threw |-> FALSE]

\* renderTransformedSource up to its await of renderMask (lines 201-225)
renderTransformedSource(t) ==
    LET layer  == t.layer
        rotate == RotationRemainderNonZero(layer.rotation)
        c1 == Apply(save(t.ctx), ScaleCall(layer.mirrorX, layer.mirrorY))
        c2 == IF rotate
              THEN Apply(Apply(Apply(c1, "translate(centre)"), "rotate(rotation)"),
                         "translate(-centre)")
              ELSE c1
        m  == renderMask(c2, layer, t.maskFails)
        drawn == [t EXCEPT !.rotate = rotate,
                           !.drawnWith = c2.transform,
                           !.target = Target(rotate, layer.mirrorX, layer.mirrorY)]
    IN  IF t.drawFails
        THEN [t EXCEPT !.pc = "failed", !.ctx = c2, !.rotate = rotate]
        ELSE IF m.threw
        THEN [drawn EXCEPT !.pc = "failed", !.ctx = m.ctx]
        ELSE [drawn EXCEPT !.pc = "mask", !.ctx = m.ctx]

\* lines 59-63 of renderEffectsForLayer
DrawLayer(t) ==
    IF hasEffects(t.layer) THEN renderTransformedSource(t)
    ELSE IF t.drawFails THEN [t EXCEPT !.pc = "failed"]
    ELSE [t EXCEPT !.pc = "done", !.drawnWith = t.ctx.transform,
                   !.target = "(0,0)"]

TransformLayers ==
    [rotation : Rotations, mirrorX : BOOLEAN, mirrorY : BOOLEAN, mask : BOOLEAN]

IdleTr == [pc |-> "none",
           layer |-> [rotation |-> Rot(0, 0), mirrorX |-> FALSE,
                      mirrorY |-> FALSE, mask |-> FALSE],
           drawFails |-> FALSE, maskFails |-> FALSE,
           ctx |-> NewContext, rotate |-> FALSE,
           drawnWith |-> <<>>, target |-> ""]

\* a working surface has been acquired for a layer; drawFails / maskFails:
\* drawImage throws for the source / the mask (a surface without pixels, an
\* image that failed to decode)
AcquireContext ==
    /\ tr.pc = "none"
    /\ \E layer \in TransformLayers, drawFails \in BOOLEAN, maskFails \in BOOLEAN :
        /\ maskFails => layer.mask
        /\ tr' = [IdleTr EXCEPT !.pc = "acquired", !.layer = layer,
                                !.drawFails = drawFails, !.maskFails = maskFails]
    /\ UNCHANGED <<canvasVars, renderVars, fx, px>>

\* the source is drawn onto the working surface
DrawSource ==
    /\ tr.pc = "acquired"
    /\ tr' = DrawLayer(tr)
    /\ UNCHANGED <<canvasVars, renderVars, fx, px>>

\* renderTransformedSource resumes after await renderMask: ctx.restore()
TransformResume ==
    /\ tr.pc = "mask"
    /\ tr' = [tr EXCEPT !.pc = "done", !.ctx = restore(@)]
    /\ UNCHANGED <<canvasVars, renderVars, fx, px>>

NextTransform ==
    \/ AcquireContext
    \/ DrawSource
    \/ TransformResume

\* the render-service at rest (no document loaded)
IdleDoc  == <<>>
IdleSnap == [pc |-> "idle", i |-> 0, log |-> <<>>, disposed |-> 0]
IdleCopy == [pc |-> "idle", layer |-> 0, disposed |-> 0,
             selectModeBefore |-> FALSE]

InitCanvas ==
    /\ zc \in {NewCanvas(hv) : hv \in BOOLEAN}
    /\ last = [op |-> "constructor"]
    /\ doc = IdleDoc
    /\ sprites = <<>>
    /\ runs = <<>>
    /\ surf = <<>>
    /\ src = <<>>
    /\ snap = IdleSnap
    /\ copy = IdleCopy
    /\ fx = IdleFx
    /\ px = IdlePx
    /\ tr = IdleTr

SpecCanvas == InitCanvas /\ [][NextCanvas]_vars

SpecLoop == InitCanvas /\ [][NextLoop]_vars

SpecZoom == InitCanvas /\ [][NextZoom]_vars

SpecEffects == InitCanvas /\ [][NextEffects]_vars

SpecFilters == InitCanvas /\ [][NextFilters]_vars

SpecTransform == InitCanvas /\ [][NextTransform]_vars

\* ---------------------------------------------------------------------
\* C1: at most one animation-frame request is outstanding at any time,
\* whatever the interleaving of render() calls (as frame callback or invoked
\* directly while a request is outstanding) and invalidate() requests.
C1_AtMostOneFrameRequest == zc.raf <= 1

\* ---------------------------------------------------------------------
\* C6 as stated: whenever the old scroll range is non-zero the ratio used by
\* setDocumentScale is exactly left / oldScrollWidth (top / oldScrollHeight),
\* left = 0 included; 0.5 is used only for a zero denominator; the pan target
\* is (newScrollWidth * ratioX, newScrollHeight * ratioY).
C6_RatioIsQuotient ==
    last.op = "rescale" =>
        /\ IF last.scrollWidth # 0
           THEN Mul(last.ratioX, Nr(last.scrollWidth)) = last.left
           ELSE last.ratioX = Half
        /\ IF last.scrollHeight # 0
           THEN Mul(last.ratioY, Nr(last.scrollHeight)) = last.top
           ELSE last.ratioY = Half
        /\ last.panX = Mul(Nr(zc.width  - zc.vp.width),  last.ratioX)
        /\ last.panY = Mul(Nr(zc.height - zc.vp.height), last.ratioY)

\* C6 amended: the ratio is left / oldScrollWidth (top / oldScrollHeight) only
\* when left (top) is non-zero; for an unscrolled axis (left = 0, top = 0) the
\* ratio is 0.5 whatever the old scroll range; the pan target is
\* (newScrollWidth * ratioX, newScrollHeight * ratioY).
C6_RatioIsQuotientUnlessUnscrolled ==
    last.op = "rescale" =>
        /\ IF last.left # Nr(0)
           THEN /\ last.scrollWidth # 0
                /\ Mul(last.ratioX, Nr(last.scrollWidth)) = last.left
           ELSE last.ratioX = Half
        /\ IF last.top # Nr(0)
           THEN /\ last.scrollHeight # 0
                /\ Mul(last.ratioY, Nr(last.scrollHeight)) = last.top
           ELSE last.ratioY = Half
        /\ last.panX = Mul(Nr(zc.width  - zc.vp.width),  last.ratioX)
        /\ last.panY = Mul(Nr(zc.height - zc.vp.height), last.ratioY)

\* a rescale of a scrolled viewport onto a canvas with another scroll range
C6_Witness ==
    /\ last.op = "rescale"
    /\ last.left # Nr(0)
    /\ last.top # Nr(0)
    /\ last.ratioX # Half
    /\ zc.width - zc.vp.width # last.scrollWidth
    /\ zc.vp.left = last.panX

\* ---------------------------------------------------------------------
\* C7: when the viewport is unscrolled and nothing can be scrolled before
\* setDocumentScale (left = 0, old scroll range = 0), the ratio is 0.5 and the
\* pan target is exactly half of the new scroll range: the resized canvas
\* extent minus the viewport extent after the resize (same for Y).
C7_CenteredAfterRescale ==
    last.op = "rescale" =>
        /\ (last.left = Nr(0) /\ last.scrollWidth = 0) =>
              /\ last.ratioX = Half
              /\ Mul(last.panX, Nr(2)) = Nr(zc.width - zc.vp.width)
        /\ (last.top = Nr(0) /\ last.scrollHeight = 0) =>
              /\ last.ratioY = Half
              /\ Mul(last.panY, Nr(2)) = Nr(zc.height - zc.vp.height)

\* a full-fit canvas rescaled to one that can be scrolled on both axes
C7_Witness ==
    /\ last.op = "rescale"
    /\ last.left = Nr(0) /\ last.scrollWidth = 0
    /\ last.top = Nr(0) /\ last.scrollHeight = 0
    /\ zc.width - zc.vp.width > 0
    /\ zc.height - zc.vp.height > 0
    /\ zc.vp.left = Nr((zc.width - zc.vp.width) \div 2)

\* ---------------------------------------------------------------------
\* C8: the coordinate handed to the children for a mouse event is
\* ((offsetX + viewport.left) / zoomFactor, (offsetY + viewport.top) / zoomFactor):
\* (0,0) for an event at the origin of an unscrolled viewport, and half of what
\* the same raw input translates to under half the zoomFactor.
C8_MouseCoordinate ==
    (last.op = "mouse" /\ zc.hasViewport /\ last.offered # <<>>) =>
        /\ Mul(last.x, zc.zoomFactor) = Add(Nr(last.offset[1]), zc.vp.left)
        /\ Mul(last.y, zc.zoomFactor) = Add(Nr(last.offset[2]), zc.vp.top)
        /\ (last.offset = <<0, 0>> /\ zc.vp.left = Nr(0) /\ zc.vp.top = Nr(0)) =>
              (last.x = Nr(0) /\ last.y = Nr(0))
        /\ Mul(last.x, Nr(2)) =
              MouseCoordinate(last.offset[1], zc.vp.left, TRUE,
                              Div(zc.zoomFactor, Nr(2)))
        /\ Mul(last.y, Nr(2)) =
              MouseCoordinate(last.offset[2], zc.vp.top, TRUE,
                              Div(zc.zoomFactor, Nr(2)))

\* a mouse event away from the origin on a scrolled, zoomed canvas
C8_Witness ==
    /\ last.op = "mouse" /\ zc.hasViewport /\ last.offered # <<>>
    /\ zc.zoomFactor = Nr(2)
    /\ zc.vp.left # Nr(0)
    /\ last.offset # <<0, 0>>

\* ---------------------------------------------------------------------
\* C9: a mouse event is offered topmost child first and the dispatch stops at
\* the first child that handles it: that child and every child above it is
\* offered the event exactly once, no child below it is; when no child handles
\* it every child is offered it exactly once.
C9_MouseReverseOrderStopsAtHandler ==
    last.op = "mouse" =>
        LET n == zc.numChildren
            H == {i \in 1..n : last.handled[i]}
            stop == IF H = {} THEN 1 ELSE CHOOSE i \in H : \A j \in H : j <= i
        IN  /\ Len(last.offered) = IF n = 0 THEN 0 ELSE n - stop + 1
            /\ \A k \in 1..Len(last.offered) : last.offered[k] = n + 1 - k

\* the topmost of two children handles the event: the lower one is skipped
C9_Witness ==
    /\ last.op = "mouse"
    /\ zc.numChildren = 2
    /\ last.handled[2]
    /\ last.offered = <<2>>

\* ---------------------------------------------------------------------
\* C10: a touch event is offered to every child exactly once, topmost first,
\* whatever the children return; the coordinate is the touch's page coordinate
\* minus the canvas' screen offset (itself reduced by viewport.left / top),
\* divided by zoomFactor.
C10_TouchAllChildren ==
    last.op = "touch" =>
        /\ Len(last.offered) = zc.numChildren
        /\ \A k \in 1..Len(last.offered) : last.offered[k] = zc.numChildren + 1 - k
        /\ (last.hasTouch /\ zc.hasViewport) =>
              /\ Mul(last.x, zc.zoomFactor) =
                    Sub(Nr(last.page[1]), Sub(Nr(last.canvasOffset[1]), zc.vp.left))
              /\ Mul(last.y, zc.zoomFactor) =
                    Sub(Nr(last.page[2]), Sub(Nr(last.canvasOffset[2]), zc.vp.top))

\* the topmost child reports the touch as handled and the lower one still gets it
C10_Witness ==
    /\ last.op = "touch"
    /\ zc.numChildren = 2
    /\ last.handled[2]
    /\ last.offered = <<2, 1>>
    /\ last.hasTouch /\ zc.hasViewport
    /\ zc.vp.left # Nr(0)
    /\ zc.zoomFactor # Nr(1)

\* ---------------------------------------------------------------------
\* C11: every wheel event handled by the canvas, whatever the number of
\* children it holds, pans the viewport to (viewport.left + sx,
\* viewport.top + sy), where sx (sy) is +20, -20 or 0 according only to the
\* sign of deltaX (deltaY), not to its magnitude.
C11_WheelPansBySign ==
    (last.op = "wheel" /\ zc.hasViewport) =>
        /\ last.panned
        /\ last.panX = Add(last.left, Nr(WHEEL_SPEED * Sign(last.delta[1])))
        /\ last.panY = Add(last.top,  Nr(WHEEL_SPEED * Sign(last.delta[2])))

C13_ContrastAppliedWhenNonZero ==
    px.pc \in {"filtered", "unfiltered"} =>
        /\ px.data[4] = px.before[4]
        /\ \A i \in 1..3 :
              LET t == FilterChannel(px.before[i], px.filters)
                  b == Add(px.filters.contrast, Nr(1))
              IN  /\ px.pc = "filtered" => px.data[i] = t.out
                  /\ IF px.filters.contrast # Nr(0)
                     THEN /\ px.pc = "filtered"
                          /\ t.contrastApplied
                          /\ t.contrastAssigned =
                                Add(Mul(Sub(Nr(t.contrastRead), Div(Nr(255), Nr(2))),
                                        Mul(b, b)),
                                    Div(Nr(255), Nr(2)))
                     ELSE t.out = t.contrastRead

\* ---------------------------------------------------------------------
\* C14: with levels and contrast both set the steps compose levels first,
\* with no clamping or rounding in between: the value the contrast step reads
\* is the unclamped channel * levels^2 (400 for R = 100 and raw levels 1), which
\* may exceed 255, and the result is the contrast formula applied to it.
C14_LevelsThenContrastUnclamped ==
    (px.pc = "filtered" /\ Truthy(px.filters.levels)
                        /\ Truthy(px.filters.contrast)
                        /\ px.filters.contrast # Nr(-1)) =>
        \A i \in 1..3 :
            LET t == FilterChannel(px.before[i], px.filters)
                l == Mul(px.filters.levels, Nr(2))
            IN  /\ t.levelsApplied /\ t.contrastApplied
                /\ Nr(t.contrastRead) = Mul(Nr(px.before[i]), Mul(l, l))
                /\ px.data[i] = t.out

\* ---------------------------------------------------------------------
\* C15: rotation is normalised modulo one full turn (2 * pi) before use: a layer
\* without mask and mirroring whose effects.rotation is a non-zero whole number
\* of full turns is treated as unrotated: the rotate decision of the transform
\* renderer is false and the source is drawn as for rotation 0, untransformed
\* at the origin.
C15_FullTurnsAreUnrotated ==
    (/\ tr.pc = "done"
     /\ ~tr.layer.mask /\ ~tr.layer.mirrorX /\ ~tr.layer.mirrorY
     /\ tr.layer.rotation.rat = 0
     /\ tr.layer.rotation.quarter % 4 = 0) =>
        /\ ~tr.rotate
        /\ \A k \in 1..Len(tr.drawnWith) : tr.drawnWith[k] # "rotate(rotation)"
        /\ tr.target = "(0,0)"

\* ---------------------------------------------------------------------
\* C17: transform state is scoped: for every combination of mirrorX, mirrorY,
\* rotation and mask, and whether or not a draw step fails, the saved-state
\* depth and the transform of the context after renderTransformedSource (and
\* renderMask) are those before the call: every save() has its restore().
C17_TransformStateScoped ==
    tr.pc \in {"done", "failed"} =>
        /\ Len(tr.ctx.stack) = Len(NewContext.stack)
        /\ tr.ctx.transform = NewContext.transform

\* ---------------------------------------------------------------------
\* C19: in every reachable state, after any sequence of constructor,
\* setZoomFactor, setDocumentScale and render (a render with an enqueued
\* resize included), the cumulative scale applied to the drawing context
\* equals the current zoomFactor: scaled once, never compounded, never lost.
C19_ContextScaledByZoomFactorOnce == zc.ctxScale = zc.zoomFactor

\* =====================================================================
\* render-service.js
\* =====================================================================
MaxRuns == 2   \* renderEffectsForLayer invocations made by the editor

\* the kinds of layer of the documents explored
Layer(type, sprite, source, bitmapIsCanvas, text, mask, mirrorX, levels, contrast) ==
    [type |-> type, sprite |-> sprite, source |-> source,
     bitmapIsCanvas |-> bitmapIsCanvas, text |-> text, mask |-> mask,
     rotation |-> Rot(0, 0), mirrorX |-> mirrorX, mirrorY |-> FALSE,
     levels |-> Nr(levels), contrast |-> Nr(contrast),
     edits |-> 0]    \* how often the editor has changed text.value

\* text.value as its lines; NoText is the empty string
NoText == <<>>
TextValues == {NoText, <<"a">>, <<"b", "c">>}

PlainLayer    == Layer("graphic", TRUE,  TRUE,  TRUE,  NoText,  FALSE, FALSE, 0, 0)
MaskedLayer   == Layer("graphic", TRUE,  TRUE,  FALSE, NoText,  TRUE,  TRUE,  1, 0)
TextLayer     == Layer("text",    TRUE,  TRUE,  TRUE,  <<"a">>, FALSE, FALSE, 0, 1)
NoSpriteLayer == Layer("graphic", FALSE, TRUE,  FALSE, NoText,  FALSE, FALSE, 0, 0)
NoSourceLayer == Layer("graphic", TRUE,  FALSE, TRUE,  NoText,  FALSE, FALSE, 1, 0)

Documents ==
    {<<TextLayer>>, <<MaskedLayer>>,
     <<PlainLayer, TextLayer>>, <<MaskedLayer, PlainLayer>>,
     <<TextLayer, NoSourceLayer>>, <<NoSpriteLayer, TextLayer>>,
     <<MaskedLayer, NoSpriteLayer>>, <<NoSpriteLayer, NoSourceLayer>>}

\* the slot of the invocation made by createDocumentSnapshot, and all slots
SnapSlot == 0
Slots    == 0..MaxRuns

\* canvas identities: the one a sprite holds initially, the one invocation r
\* creates for layer l
InitialCanvas(l) == 100 + l
CreatedCanvas(r, l) == 10 * (r + 1) + l
NoCanvas == 0

\* an invocation: where it is suspended, its working surface, how often it
\* has called loadGoogleFont, the font it drew the text with, and how often
\* text.value had been changed when it began
IdleRun == [layer |-> 0, pc |-> "idle", cvs |-> NoCanvas,
            fontLoads |-> 0, fontFailed |-> FALSE, font |-> "", edits |-> 0]

\* what layer.source holds
NoSource    == [kind |-> "none",  lines |-> <<>>, font |-> ""]
ImageSource == [kind |-> "image", lines |-> <<>>, font |-> ""]
BlankSource == [kind |-> "text",  lines |-> <<>>, font |-> ""]

Put(f, k, v) == [x \in DOMAIN f \cup {k} |-> IF x = k THEN v ELSE f[x]]

\* faulty variant: only the sprite is tested
NoOpSpriteOnly(layer) == ~layer.sprite

\* !sprite || !layer.source
NoOp(layer) == ~layer.sprite \/ ~layer.source

\* what one run of the pipeline leaves on a cleared working surface
SingleRun(layer) ==
    <<"draw">> \o (IF layer.mask THEN <<"mask">> ELSE <<>>)
               \o (IF hasFilters(layer) THEN <<"filter">> ELSE <<>>)

\* the state renderEffectsForLayer works on
World == [sprites |-> sprites, runs |-> runs, surf |-> surf, src |-> src]

Paint(w, r, what) ==
    [w EXCEPT !.surf[w.runs[r].cvs] = @ \o what]

AtPc(w, r, pc) == [w EXCEPT !.runs[r].pc = pc]

\* lines 44-53: the working surface is the sprite's canvas, resized (which
\* clears it), or a new canvas when the sprite holds no canvas
AcquireSurface(w, r, l) ==
    LET held == w.sprites[l].bitmap
        cvs  == IF held # NoCanvas THEN held ELSE CreatedCanvas(r, l)
    IN  [w EXCEPT !.surf = Put(@, cvs, <<>>),
                  !.runs[r] = [IdleRun EXCEPT !.layer = l, !.pc = "acquired",
                                              !.cvs = cvs,
                                              !.edits = doc[l].edits]]

\* lines 71-72: sprite.setBitmap( cvs, width, height ); sprite.invalidate()
Publish(w, r) ==
    LET l == w.runs[r].layer
    IN  [w EXCEPT !.sprites[l].bitmap = w.runs[r].cvs,
                  !.sprites[l].published = w.surf[w.runs[r].cvs],
                  !.sprites[l].setBitmaps = @ + 1,
                  !.runs[r].pc = "done"]

\* lines 64-72: renderFilters runs to its end, then the await
FilterStage(w, r) ==
    IF hasFilters(doc[w.runs[r].layer])
    THEN AtPc(Paint(w, r, <<"filter">>), r, "filters")
    ELSE Publish(w, r)

\* lines 59-63: renderTransformedSource draws (and masks) up to its await of
\* renderMask; the plain draw is followed by the filters at once
DrawStage(w, r) ==
    LET layer == doc[w.runs[r].layer]
    IN  IF ~layer.source
        THEN AtPc(w, r, "failed")    \* drawImage of a missing source throws
                                     \* (not reached past the guard of line 39)
        ELSE IF hasEffects(layer)
        THEN AtPc(Paint(w, r, <<"draw">> \o (IF layer.mask THEN <<"mask">> ELSE <<>>)),
                  r, "mask")
        ELSE FilterStage(Paint(w, r, <<"draw">>), r)

\* lines 55-57 and 157-165: renderText returns at once for an empty value and
\* awaits loadGoogleFont otherwise
TextStage(w, r) ==
    LET layer == doc[w.runs[r].layer]
    IN  IF layer.type = "text"
        THEN IF layer.text = NoText
             THEN AtPc(w, r, "text")
             ELSE [w EXCEPT !.runs[r].pc = "font", !.runs[r].fontLoads = @ + 1]
        ELSE DrawStage(w, r)

\* renderEffectsForLayer( layer ) up to its first await
renderEffectsForLayer(w, r, l) ==
    IF NoOp(doc[l])
    THEN [w EXCEPT !.runs[r] = [IdleRun EXCEPT !.layer = l, !.pc = "done"]]
    ELSE TextStage(AcquireSurface(w, r, l), r)

\* faulty variant: the error of loadGoogleFont is not caught
renderTextRethrowing(w, r, fontLoaded) ==
    IF fontLoaded
    THEN [w EXCEPT !.src[w.runs[r].layer] =
                       [kind |-> "text", lines |-> doc[w.runs[r].layer].text,
                        font |-> "text.font"],
                   !.runs[r].font = "text.font",
                   !.runs[r].pc = "text"]
    ELSE [w EXCEPT !.runs[r].fontFailed = TRUE, !.runs[r].pc = "failed"]

\* lines 166-197: loadGoogleFont has settled; the lines of text.value are drawn
\* onto the cleared layer.source with text.font or, had the load failed, Arial
renderText(w, r, fontLoaded) ==
    LET font == IF fontLoaded THEN "text.font" ELSE "Arial"
    IN  [w EXCEPT !.src[w.runs[r].layer] =
                      [kind |-> "text", lines |-> doc[w.runs[r].layer].text,
                       font |-> font],
                  !.runs[r].font = font,
                  !.runs[r].fontFailed = ~fontLoaded,
                  !.runs[r].pc = "text"]

\* the continuation of an invocation after the await it is suspended at
Continue(w, r) ==
    CASE w.runs[r].pc = "text"    -> DrawStage(w, r)
      [] w.runs[r].pc = "mask"    -> AtPc(w, r, "xform")    \* ctx.restore()
      [] w.runs[r].pc = "xform"   -> FilterStage(w, r)
      [] w.runs[r].pc = "filters" -> Publish(w, r)

InFlight(run) == run.pc \in {"font", "text", "mask", "xform", "filters"}

\* the sprite of layer l before any pipeline run
NewSprite(l) ==
    [bitmap |-> IF doc[l].sprite /\ doc[l].bitmapIsCanvas
                THEN InitialCanvas(l) ELSE NoCanvas,
     published |-> <<"initial">>,
     setBitmaps |-> 0,
     isSelectMode |-> TRUE]

InitRender ==
    /\ doc \in Documents
    /\ sprites = [l \in 1..Len(doc) |-> NewSprite(l)]
    /\ runs = [r \in Slots |-> IdleRun]
    /\ surf = [id \in {InitialCanvas(l) : l \in {k \in 1..Len(doc) :
                          doc[k].sprite /\ doc[k].bitmapIsCanvas}} |-> <<"initial">>]
    /\ src = [l \in 1..Len(doc) |->
                 IF ~doc[l].source THEN NoSource
                 ELSE IF doc[l].type = "text" THEN BlankSource ELSE ImageSource]
    /\ snap = IdleSnap
    /\ copy = IdleCopy
    /\ zc = NewCanvas(TRUE)
    /\ last = [op |-> "constructor"]
    /\ fx = IdleFx
    /\ px = IdlePx
    /\ tr = IdleTr

SetWorld(w) ==
    /\ sprites' = w.sprites
    /\ runs' = w.runs
    /\ surf' = w.surf
    /\ src' = w.src

\* the snapshot's log once the invocation it awaits has completed in w
LogEffects(log, w) ==
    IF w.runs[SnapSlot].pc = "done"
    THEN Append(log, <<"effects", w.runs[SnapSlot].layer>>)
    ELSE log

\* the editor invokes renderEffectsForLayer( layer )
StartRun ==
    \E r \in 1..MaxRuns, l \in 1..Len(doc) :
        /\ runs[r].pc = "idle"
        /\ r = 1 \/ runs[r - 1].pc # "idle"
        /\ SetWorld(renderEffectsForLayer(World, r, l))
        /\ UNCHANGED <<unitVars, zc, last, doc, snap, copy>>

\* loadGoogleFont settles, with the font or with an error
FontSettled ==
    \E r \in Slots, fontLoaded \in BOOLEAN :
        /\ runs[r].pc = "font"
        /\ SetWorld(renderText(World, r, fontLoaded))
        /\ UNCHANGED <<unitVars, zc, last, doc, snap, copy>>

\* an invocation resumes after the await it was suspended at
ResumeRun ==
    \E r \in Slots :
        /\ runs[r].pc \in {"text", "mask", "xform", "filters"}
        /\ LET w == Continue(World, r)
           IN  /\ SetWorld(w)
               /\ snap' = IF r = SnapSlot
                          THEN [snap EXCEPT !.log = LogEffects(@, w)]
                          ELSE snap
        /\ UNCHANGED <<unitVars, zc, last, doc, copy>>

\* faulty variant: the snapshot does not await the layer's pipeline
EffectsNotAwaited(run) == TRUE

\* await renderEffectsForLayer( layer ): the invocation has settled
EffectsAwaited(run) == run.pc \in {"done", "failed"}

\* createDocumentSnapshot up to its first await (lines 79-87)
StartSnapshot ==
    /\ snap.pc = "idle"
    /\ LET w == renderEffectsForLayer(World, SnapSlot, 1)
       IN  /\ SetWorld(w)
           /\ snap' = [pc |-> "effects", i |-> 1, log |-> LogEffects(<<>>, w),
                       disposed |-> 0]
    /\ UNCHANGED <<unitVars, zc, last, doc, copy>>

\* lines 88-96: the layer is drawn, then the next layer's pipeline is invoked
\* or, after the last layer, the canvas is encoded and disposed
SnapshotResume ==
    /\ snap.pc = "effects"
    /\ EffectsAwaited(runs[SnapSlot])
    /\ IF runs[SnapSlot].pc = "failed" \/ ~doc[snap.i].sprite
       THEN \* the pipeline rejected, or sprite.draw of a missing sprite throws
            /\ snap' = [snap EXCEPT !.pc = "failed"]
            /\ UNCHANGED <<sprites, runs, surf, src>>
       ELSE IF snap.i < Len(doc)
       THEN LET w == renderEffectsForLayer(World, SnapSlot, snap.i + 1)
            IN  /\ SetWorld(w)
                /\ snap' = [snap EXCEPT
                              !.i = @ + 1,
                              !.log = LogEffects(Append(@, <<"draw", snap.i>>), w)]
       ELSE /\ snap' = [snap EXCEPT
                          !.pc = "resize",
                          !.log = @ \o << <<"draw", snap.i>>, <<"encode">> >>,
                          !.disposed = @ + 1]
            /\ UNCHANGED <<sprites, runs, surf, src>>
    /\ UNCHANGED <<unitVars, zc, last, doc, copy>>

\* lines 96-104: resizeToBase64 settles
SnapshotResized ==
    /\ snap.pc = "resize"
    /\ \E ok \in BOOLEAN :
        snap' = [snap EXCEPT !.pc = IF ok THEN "fetch" ELSE "failed"]
    /\ UNCHANGED <<unitVars, zc, last, doc, sprites, runs, surf, src, copy>>

\* lines 104-105: the blob is fetched
SnapshotFetched ==
    /\ snap.pc = "fetch"
    /\ snap' = [snap EXCEPT !.pc = "done"]
    /\ UNCHANGED <<unitVars, zc, last, doc, sprites, runs, surf, src, copy>>

\* copySelection up to its await of loader.loadImage (lines 112-139)
CopySelection ==
    /\ copy.pc = "idle"
    /\ \E l \in 1..Len(doc) :
        IF ~doc[l].sprite
        THEN \* sprite._isSelectMode of a missing sprite throws (line 124)
             /\ copy' = [IdleCopy EXCEPT !.pc = "failed", !.layer = l]
             /\ UNCHANGED sprites
        ELSE /\ copy' = [pc |-> "loading", layer |-> l, disposed |-> 1,
                         selectModeBefore |-> sprites[l].isSelectMode]
             /\ sprites' = [sprites EXCEPT ![l].isSelectMode = FALSE]
    /\ UNCHANGED <<unitVars, zc, last, doc, runs, surf, src, snap>>

\* loader.loadImage settles
CopyLoaded ==
    /\ copy.pc = "loading"
    /\ \E ok \in BOOLEAN :
        copy' = [copy EXCEPT !.pc = IF ok THEN "done" ELSE "failed"]
    /\ UNCHANGED <<unitVars, zc, last, doc, sprites, runs, surf, src, snap>>

NextRender ==
    \/ StartRun
    \/ FontSettled
    \/ ResumeRun
    \/ StartSnapshot
    \/ SnapshotResume
    \/ SnapshotResized
    \/ SnapshotFetched
    \/ CopySelection
    \/ CopyLoaded

SpecRender == InitRender /\ [][NextRender]_vars

\* ------------------------------------------------- text layers, edited
MaxEdits == 2   \* changes of text.value made by the editor

TextDocuments ==
    {<<[TextLayer EXCEPT !.text = v]>> : v \in TextValues}
        \cup {<<PlainLayer, TextLayer>>}

\* the editor changes text.value of a text layer no pipeline run is working on
EditText ==
    /\ \E l \in 1..Len(doc), v \in TextValues :
        /\ doc[l].type = "text"
        /\ doc[l].edits < MaxEdits
        /\ v # doc[l].text
        /\ \A r \in Slots : ~(runs[r].layer = l /\ InFlight(runs[r]))
        /\ doc' = [doc EXCEPT ![l].text = v, ![l].edits = @ + 1]
    /\ UNCHANGED <<unitVars, zc, last, sprites, runs, surf, src, snap, copy>>

\* what the sprite of layer l draws: its _bitmap, a canvas or the image it
\* was created with
Visible(l) ==
    IF sprites[l].bitmap = NoCanvas THEN sprites[l].published
    ELSE surf[sprites[l].bitmap]

\* a frame of the render loop draws the sprites (part_000, lines 131-140)
DrawSprites ==
    /\ last' = [op |-> "draw",
                drawn     |-> [l \in 1..Len(doc) |-> Visible(l)],
                published |-> [l \in 1..Len(doc) |-> sprites[l].published],
                inFlight  |-> {runs[r].layer : r \in {q \in Slots : InFlight(runs[q])}}]
    /\ UNCHANGED <<unitVars, zc, doc, sprites, runs, surf, src, snap, copy>>

InitText ==
    /\ doc \in TextDocuments
    /\ sprites = [l \in 1..Len(doc) |-> NewSprite(l)]
    /\ runs = [r \in Slots |-> IdleRun]
    /\ surf = [id \in {InitialCanvas(l) : l \in {k \in 1..Len(doc) :
                          doc[k].sprite /\ doc[k].bitmapIsCanvas}} |-> <<"initial">>]
    /\ src = [l \in 1..Len(doc) |->
                 IF doc[l].type = "text" THEN BlankSource ELSE ImageSource]
    /\ snap = IdleSnap
    /\ copy = IdleCopy
    /\ zc = NewCanvas(TRUE)
    /\ last = [op |-> "constructor"]
    /\ fx = IdleFx
    /\ px = IdlePx
    /\ tr = IdleTr

NextText ==
    \/ StartRun
    \/ FontSettled
    \/ ResumeRun
    \/ EditText
    \/ DrawSprites

SpecText == InitText /\ [][NextText]_vars

\* ---------------------------------------------------------------------
\* C2: whenever createDocumentSnapshot or copySelection has terminated,
\* normally or by a failure of one of its steps, dispose() has been called
\* exactly once on the full-size canvas it created.
C2_DisposedOnEveryExit ==
    /\ snap.pc \in {"done", "failed"} => snap.disposed = 1
    /\ copy.pc \in {"done", "failed"} => copy.disposed = 1

\* ---------------------------------------------------------------------
\* C3: createDocumentSnapshot works bottom-to-top: layer i is drawn only after
\* renderEffectsForLayer( layer i ) has completed and after layer i-1 was
\* drawn, and the canvas is encoded only after every layer has been drawn.
\* The log of completions, draws and the encoding is a prefix of
\* effects 1, draw 1, effects 2, draw 2, ..., effects n, draw n, encode.
C3_SnapshotBottomToTop ==
    LET n == Len(doc)
        Ideal(k) == IF k = 2 * n + 1 THEN <<"encode">>
                    ELSE IF k % 2 = 1 THEN <<"effects", (k + 1) \div 2>>
                    ELSE <<"draw", k \div 2>>
    IN  /\ Len(snap.log) <= 2 * n + 1
        /\ \A k \in 1..Len(snap.log) : snap.log[k] = Ideal(k)
        /\ \A k \in 1..Len(snap.log) :
              snap.log[k][1] = "draw" =>
                  ~(runs[SnapSlot].layer = snap.log[k][2] /\ InFlight(runs[SnapSlot]))

\* a snapshot of two layers, one of which suspended on its font, has finished
C3_Witness ==
    /\ snap.pc = "done"
    /\ Len(doc) = 2
    /\ Len(snap.log) = 5
    /\ \E l \in 1..2 : doc[l].type = "text" /\ src[l] # BlankSource

\* ---------------------------------------------------------------------
\* C4: at most one renderEffectsForLayer run per layer is in flight at a
\* time, and no run that began while another run for the layer was suspended
\* has touched the working surface: what is published is the result of one
\* single pipeline run.
C4_OneRunPerLayerInFlight ==
    \A l \in 1..Len(doc) :
        /\ Cardinality({r \in Slots : runs[r].layer = l /\ InFlight(runs[r])}) <= 1
        /\ sprites[l].setBitmaps > 0 => sprites[l].published = SingleRun(doc[l])

\* ---------------------------------------------------------------------
\* C5: renderEffectsForLayer on a layer without sprite or without source
\* returns without raising and without effect: no surface is resized or
\* created, nothing is drawn, filtered or published.
C5_NoOpWithoutSpriteOrSource ==
    \A l \in 1..Len(doc) :
        (~doc[l].sprite \/ ~doc[l].source) =>
            /\ sprites[l].bitmap = NewSprite(l).bitmap
            /\ sprites[l].published = <<"initial">>
            /\ sprites[l].setBitmaps = 0
            /\ \A id \in DOMAIN surf :
                  IF id = InitialCanvas(l) THEN surf[id] = <<"initial">>
                  ELSE \A r \in Slots : id # CreatedCanvas(r, l)
            /\ \A r \in Slots :
                  runs[r].layer = l => (runs[r].pc = "done" /\ runs[r].cvs = NoCanvas)

\* the pipeline was invoked for a layer without source whose sprite holds a
\* canvas, and for a layer without sprite
C5_Witness ==
    /\ \E r \in 1..MaxRuns :
          /\ runs[r].pc = "done"
          /\ runs[r].layer # 0
          /\ ~doc[runs[r].layer].source
          /\ sprites[runs[r].layer].bitmap # NoCanvas
    /\ \E r \in Slots :
          /\ runs[r].pc = "done"
          /\ runs[r].layer # 0
          /\ ~doc[runs[r].layer].sprite

\* ---------------------------------------------------------------------
\* C16: a failure of the font load is never propagated: the run whose
\* loadGoogleFont call failed does not fail, it draws the text with the
\* fallback font Arial, and it has called loadGoogleFont exactly once; no run
\* calls loadGoogleFont more than once.
C16_FontFailureRecovered ==
    \A r \in Slots :
        /\ runs[r].fontLoads <= 1
        /\ runs[r].fontFailed =>
              /\ runs[r].pc # "failed"
              /\ runs[r].fontLoads = 1
              /\ runs[r].font = "Arial"
              /\ src[runs[r].layer].kind = "text"
              /\ src[runs[r].layer].lines # <<>>

\* a run whose font failed to load has published the text drawn in Arial
C16_Witness ==
    \E r \in 1..MaxRuns :
        /\ runs[r].fontFailed
        /\ runs[r].pc = "done"
        /\ src[runs[r].layer] =
              [kind |-> "text", lines |-> doc[runs[r].layer].text, font |-> "Arial"]
        /\ sprites[runs[r].layer].setBitmaps > 0

\* ---------------------------------------------------------------------
\* C18: every pipeline run for a text layer rebuilds the source surface from
\* the current text descriptor: once a run that began after the last change
\* of text.value has completed, the source holds exactly the lines of the
\* current value and nothing of a previous one, the empty string included.
C18_TextSourceRebuilt ==
    \A r \in Slots :
        (/\ runs[r].pc = "done"
         /\ runs[r].layer # 0
         /\ doc[runs[r].layer].type = "text"
         /\ runs[r].edits = doc[runs[r].layer].edits) =>
            src[runs[r].layer].lines = doc[runs[r].layer].text

\* ---------------------------------------------------------------------
\* C20: the bitmap a layer's sprite draws changes only at the publish step of
\* the pipeline: a frame of the render loop, also one that runs while
\* renderEffectsForLayer is suspended at an await, draws what was published
\* last, never a cleared, resized or partly rendered surface.
C20_FrameDrawsPublishedBitmap ==
    last.op = "draw" =>
        \A l \in DOMAIN last.drawn : last.drawn[l] = last.published[l]

\* ---------------------------------------------------------------------
\* C21: copySelection suppresses the selection outline of the active layer's
\* sprite for its own draw only: once copySelection has completed, the
\* sprite's _isSelectMode has the value it had before the call.
C21_SelectModeRestored ==
    copy.pc = "done" =>
        sprites[copy.layer].isSelectMode = copy.selectModeBefore
====
